---- MODULE Spec2Model ----
(***************************************************************************)
(* A model of filter.cpp, the BMP image filtering program: the decode of   *)
(* the input path (with its one external conversion), the selection of a   *)
(* filter, the filters themselves and the two writers (bitmap, text).      *)
(*                                                                         *)
(* A grid is a record [width, height, pixels], pixels[y][x] a record       *)
(* [R, G, B] of bytes, rows and columns counted from 0 as in the source.   *)
(***************************************************************************)
EXTENDS Integers, Sequences, FiniteSets, TLC

VARIABLES
    pc,             \* position in main(): see TypeOK
    file_path,      \* main's file_path, a sequence of characters
    cur_path,       \* the file_path argument of the running check_and_read_file
    attempts,       \* calls of check_and_read_file during the current decode
    convCalls,      \* runs of the external converter during the current decode
    result,         \* main's result (return code of check_and_read_file), -1: none yet
    image,          \* main's ImageDetails
    orig,           \* the grid as decoded (kept to state the filters' contracts)
    states,         \* program_states: selected_filter, filter_strength
    resize_failed,  \* changeImageSize returned through one of its error branches
    ascii_image,    \* make_ascii's ascii_image: whether made, and the glyph grid
    new_size,       \* make_ascii's new_size, 0 until entered
    text_file,      \* the .txt output: whether written, and its lines
    out_file        \* the output bitmap: whether written, and the grid written

vars == << pc, file_path, cur_path, attempts, convCalls, result, image, orig,
           states, resize_failed, ascii_image, new_size, text_file, out_file >>

(***************************************************************************)
(* Bounds of the model.                                                    *)
(***************************************************************************)
\* widest / tallest grid of the family holding every grid over GridColours
MaxW == 3
MaxH == 1
\* largest side of the patterned grids (point filters, edge detection)
PatMax == 5
\* largest side of the grids fed to the ascii-art path
AsciiMax == 8
\* largest side of the grids fed to the median filter
NoiseMax == 5
\* largest side of the grids fed to sharpen
SharpMax == 3
BlurMax == 4

(***************************************************************************)
(* Program constants.                                                      *)
(***************************************************************************)
NUM_FILTERS == 9
MAX_STRENGTH == 100
BYTE_MAX == 255

\* FILTER_TYPES[i].has_parameters, i = 0..8
has_parameters(f) == f \in {2, 4, 5, 7}

Strengths == 1..MAX_STRENGTH

Min(a, b) == IF a < b THEN a ELSE b
Max(a, b) == IF a > b THEN a ELSE b

\* std::clamp(v, lo, hi)
clamp(v, lo, hi) == IF v < lo THEN lo ELSE IF v > hi THEN hi ELSE v

\* the conversion of an int to BYTE (uint8_t): reduction modulo 256
toBYTE(v) == v % 256

(***************************************************************************)
(* Pixels and grids.                                                       *)
(***************************************************************************)
Pixeldata(r, g, b) == [R |-> r, G |-> g, B |-> b]

Black  == Pixeldata(0, 0, 0)
Gray   == Pixeldata(128, 128, 128)
White  == Pixeldata(255, 255, 255)
Orange == Pixeldata(200, 100, 50)

Palette == << Black, Gray, White, Orange >>
GridColours == {Black, White, Orange}

ImageDetails(w, h, px) == [width |-> w, height |-> h, pixels |-> px]

\* the ImageDetails of main before a decode has filled it
NoImage == ImageDetails(0, 0, << >>)

Rows(img) == 0..(img.height - 1)
Cols(img) == 0..(img.width - 1)

\* every grid of at most maxW x maxH pixels over the colours
AllGrids(maxW, maxH, colours) ==
    UNION { { ImageDetails(w, h, px) : px \in [0..(h - 1) -> [0..(w - 1) -> colours]] }
            : w \in 1..maxW, h \in 1..maxH }

\* the grid whose pixel (y,x) is colour (a*x + b*y + c) mod 4 of the palette:
\* uniform grids (a = b = 0), stripes, and checkerboards (a = b = 2)
PatternGrid(w, h, a, b, c) ==
    ImageDetails(w, h, [y \in 0..(h - 1) |->
                          [x \in 0..(w - 1) |-> Palette[((a * x + b * y + c) % 4) + 1]]])

PatternGrids(minSide, maxSide) ==
    { PatternGrid(w, h, a, b, c) :
        w \in minSide..maxSide, h \in minSide..maxSide,
        a \in 0..3, b \in 0..3, c \in 0..3 }

UniformGrid(w, h, colour) ==
    ImageDetails(w, h, [y \in 0..(h - 1) |-> [x \in 0..(w - 1) |-> colour]])

IsUniform(img) ==
    \A y \in Rows(img), x \in Cols(img) : img.pixels[y][x] = img.pixels[0][0]

\* copy_pixels: a deep copy, equal pixel for pixel
copy_pixels(source) == [y \in DOMAIN source |-> [x \in DOMAIN source[y] |-> source[y][x]]]

(***************************************************************************)
(* Point filters.                                                          *)
(***************************************************************************)
grayPixelBlueKept(p) ==
    LET average == (p.R + p.G + p.B) \div 3
    IN  Pixeldata(toBYTE(average), toBYTE(average), p.B)

\* the body of applyGrayscale's loop, for one pixel
grayPixel(p) ==
    LET average == (p.R + p.G + p.B) \div 3
    IN  Pixeldata(toBYTE(average), toBYTE(average), toBYTE(average))

applyGrayscale(img) ==
    [img EXCEPT !.pixels = [y \in Rows(img) |-> [x \in Cols(img) |-> grayPixel(img.pixels[y][x])]]]

\* round() of a non-negative value given in thousandths
roundThousandths(v) == (v + 500) \div 1000

sepiaPixel(p) ==
    LET t0 == roundThousandths(393 * p.R + 769 * p.G + 189 * p.B)
        t1 == roundThousandths(349 * p.R + 686 * p.G + 168 * p.B)
        t2 == roundThousandths(272 * p.R + 534 * p.G + 131 * p.B)
    IN  Pixeldata(Min(BYTE_MAX, t0), Min(BYTE_MAX, t1), Min(BYTE_MAX, t2))

\* filter_strength is accepted and not used
applySepia(img, filter_strength) ==
    [img EXCEPT !.pixels = [y \in Rows(img) |-> [x \in Cols(img) |-> sepiaPixel(img.pixels[y][x])]]]

\* std::swap(row[i], row[j])
swap(row, i, j) == [row EXCEPT ![i] = row[j], ![j] = row[i]]

\* the upper bound of applyFlip's inner loop
flipBoundMirrored(width) == width
flipBound(width) == width \div 2

\* applyFlip's inner loop on one row, from column x on
RECURSIVE flipRow(_, _, _)
flipRow(row, x, width) ==
    IF x < flipBound(width)
    THEN flipRow(swap(row, x, width - x - 1), x + 1, width)
    ELSE row

applyFlip(img) ==
    [img EXCEPT !.pixels = [y \in Rows(img) |-> flipRow(img.pixels[y], 0, img.width)]]

(***************************************************************************)
(* Convolution filters.                                                    *)
(***************************************************************************)
\* GAUSSIAN_KERNEL in sixteenths: every weight is k/16, so that the float sums
\* of applyGaussianBlur are exact multiples of 1/16 below 256
GAUSSIAN_KERNEL == << << 1, 2, 1 >>, << 2, 4, 2 >>, << 1, 2, 1 >> >>
GAUSSIAN_DIVISOR == 16

\* the horizontal Sobel kernel with the sign of one corner weight slipped
GxSignSlip == << << -1, 0, -1 >>, << -2, 0, 2 >>, << -1, 0, 1 >> >>
\* the Sobel kernels of applyEdgeDetection
Gx == << << -1, 0, 1 >>, << -2, 0, 2 >>, << -1, 0, 1 >> >>
Gy == << << 1, 2, 1 >>, << 0, 0, 0 >>, << -1, -2, -1 >> >>

\* the sum over the 3x3 neighbourhood of (y,x) of kernel weight times channel ch
conv3(px, y, x, ch, kernel) ==
    LET t(ky, kx) == kernel[ky + 1][kx + 1] * px[y + ky - 1][x + kx - 1][ch]
    IN  t(0, 0) + t(0, 1) + t(0, 2) + t(1, 0) + t(1, 1) + t(1, 2)
          + t(2, 0) + t(2, 1) + t(2, 2)

\* the pixels a 3x3 filter writes: all but the outermost ring
IsInterior(img, y, x) ==
    y >= 1 /\ y < img.height - 1 /\ x >= 1 /\ x < img.width - 1

\* static_cast<BYTE>(std::clamp(sum, 0.0f, 255.0f)): the sum truncated
blurChannel(px, y, x, ch) ==
    clamp(conv3(px, y, x, ch, GAUSSIAN_KERNEL) \div GAUSSIAN_DIVISOR, 0, BYTE_MAX)

\* a pass that keeps no snapshot: the pixels are taken in row-major order from
\* pixel i on, each interior one computed from the grid as written so far
RECURSIVE blurInPlaceFrom(_, _)
blurInPlaceFrom(img, i) ==
    IF i >= img.width * img.height THEN img
    ELSE LET y == i \div img.width
             x == i % img.width
             written ==
                 IF IsInterior(img, y, x)
                 THEN [img EXCEPT !.pixels[y][x] =
                          Pixeldata(blurChannel(img.pixels, y, x, "R"),
                                    blurChannel(img.pixels, y, x, "G"),
                                    blurChannel(img.pixels, y, x, "B"))]
                 ELSE img
         IN  IF written = written THEN blurInPlaceFrom(written, i + 1) ELSE img

applyGaussianBlurInPlace(img) == blurInPlaceFrom(img, 0)

\* one pass: every interior pixel from the snapshot original_pixels
applyGaussianBlur(img) ==
    LET original_pixels == copy_pixels(img.pixels)
    IN  [img EXCEPT !.pixels =
            [y \in Rows(img) |-> [x \in Cols(img) |->
                IF IsInterior(img, y, x)
                THEN Pixeldata(blurChannel(original_pixels, y, x, "R"),
                               blurChannel(original_pixels, y, x, "G"),
                               blurChannel(original_pixels, y, x, "B"))
                ELSE img.pixels[y][x]]]]

\* selectFilter, case 4: the passes i .. filter_strength-1 of the loop, taken as
\* the passes i .. mid-1 followed by the passes mid .. filter_strength-1
\* (a test such as first = first, here and in the loops below, only makes TLC
\* compute a step's value before it starts the next step)
RECURSIVE blurPasses(_, _, _)
blurPasses(img, i, filter_strength) ==
    IF i >= filter_strength THEN img
    ELSE IF filter_strength - i = 1 THEN applyGaussianBlur(img)
    ELSE LET mid == i + (filter_strength - i) \div 2
             first == blurPasses(img, i, mid)
         IN  IF first = first THEN blurPasses(first, mid, filter_strength) ELSE img

\* the largest r with r*r <= n, lo*lo <= n < hi*hi
RECURSIVE isqrt(_, _, _)
isqrt(n, lo, hi) ==
    IF hi - lo <= 1 THEN lo
    ELSE LET mid == (lo + hi) \div 2
         IN  IF mid * mid <= n THEN isqrt(n, mid, hi) ELSE isqrt(n, lo, mid)

\* round(sqrt(n)) for an integer n >= 0: r or r+1, r+1 exactly when n > r*r + r
\* (the search starts below 46341, whose square no longer fits an int)
roundSqrt(n) ==
    LET r == isqrt(n, 0, Min(n, 46340) + 1)
    IN  IF n - r * r > r THEN r + 1 ELSE r

\* the magnitude of applyEdgeDetection from gx and gy, clamped
edgeMagnitude(gx, gy) == clamp(roundSqrt(gx * gx + gy * gy), 0, BYTE_MAX)

applyEdgeDetection(img) ==
    LET temp_image == applyGrayscale([img EXCEPT !.pixels = copy_pixels(img.pixels)])
        magnitude(y, x) == edgeMagnitude(conv3(temp_image.pixels, y, x, "R", Gx),
                                         conv3(temp_image.pixels, y, x, "R", Gy))
    IN  [img EXCEPT !.pixels =
            [y \in Rows(img) |-> [x \in Cols(img) |->
                IF IsInterior(img, y, x)
                THEN Pixeldata(magnitude(y, x), magnitude(y, x), magnitude(y, x))
                ELSE img.pixels[y][x]]]]

(***************************************************************************)
(* Composite filter: sharpen, from the grid arithmetic.                    *)
(***************************************************************************)
\* a difference that stops at 0 instead of wrapping
subtractChannelClamped(a, b) == clamp(a - b, 0, BYTE_MAX)
\* a.R - b.R stored into a BYTE
subtractChannel(a, b) == toBYTE(a - b)

\* std::clamp(int(v * scalar), 0, 255) stored into a BYTE
multiplyChannelWrapped(v, scalar) == toBYTE(v * scalar)
multiplyChannel(v, scalar) == clamp(v * scalar, 0, BYTE_MAX)

\* std::clamp(int(a + b), 0, 255)
addChannel(a, b) == clamp(a + b, 0, BYTE_MAX)

subtract_images(a, b) ==
    [a EXCEPT !.pixels = [y \in Rows(a) |-> [x \in Cols(a) |->
        Pixeldata(subtractChannel(a.pixels[y][x].R, b.pixels[y][x].R),
                  subtractChannel(a.pixels[y][x].G, b.pixels[y][x].G),
                  subtractChannel(a.pixels[y][x].B, b.pixels[y][x].B))]]]

multiply_image(img, scalar) ==
    [img EXCEPT !.pixels = [y \in Rows(img) |-> [x \in Cols(img) |->
        Pixeldata(multiplyChannel(img.pixels[y][x].R, scalar),
                  multiplyChannel(img.pixels[y][x].G, scalar),
                  multiplyChannel(img.pixels[y][x].B, scalar))]]]

add_images(a, b) ==
    [a EXCEPT !.pixels = [y \in Rows(a) |-> [x \in Cols(a) |->
        Pixeldata(addChannel(a.pixels[y][x].R, b.pixels[y][x].R),
                  addChannel(a.pixels[y][x].G, b.pixels[y][x].G),
                  addChannel(a.pixels[y][x].B, b.pixels[y][x].B))]]]

\* the closing loop of applySharpen: each channel clamped once more
clampImage(img) ==
    [img EXCEPT !.pixels = [y \in Rows(img) |-> [x \in Cols(img) |->
        Pixeldata(clamp(img.pixels[y][x].R, 0, BYTE_MAX),
                  clamp(img.pixels[y][x].G, 0, BYTE_MAX),
                  clamp(img.pixels[y][x].B, 0, BYTE_MAX))]]]

applySharpen(img, filter_strength) ==
    LET blured_image == applyGaussianBlur([img EXCEPT !.pixels = copy_pixels(img.pixels)])
        difference == subtract_images(img, blured_image)
        sharpend_mask == multiply_image(difference, filter_strength)
        sum == add_images(img, sharpend_mask)
    IN  IF blured_image = blured_image /\ difference = difference
            /\ sharpend_mask = sharpend_mask /\ sum = sum
        THEN clampImage(sum) ELSE img

\* the number of channel values of the grid equal to 0 or 255
saturatedCount(img) ==
    LET sat(v) == IF v = 0 \/ v = BYTE_MAX THEN 1 ELSE 0
        RECURSIVE count(_)
        count(i) ==
            IF i = img.width * img.height THEN 0
            ELSE LET p == img.pixels[i \div img.width][i % img.width]
                 IN  sat(p.R) + sat(p.G) + sat(p.B) + count(i + 1)
    IN  count(0)

(***************************************************************************)
(* Median filter.                                                          *)
(***************************************************************************)
\* filter_strength after the "kernal size must be odd" step of applyNoiseReduction
adjustedStrength(filter_strength) ==
    IF filter_strength % 2 # 0 THEN (filter_strength + 1) \div 2 ELSE filter_strength

kernel_size(filter_strength) == 3 + adjustedStrength(filter_strength)

kernelOffset(filter_strength) == kernel_size(filter_strength) \div 2

\* the length of Red, Green and Blue: kernel_size * kernel_size bytes each
bufferCapacity(filter_strength) == kernel_size(filter_strength) * kernel_size(filter_strength)

\* The collecting loops visit sample_y = y-offset..y+offset, sample_x = x-offset..
\* x+offset in row-major order and keep the in-bounds ones: the rows lowY..highY
\* and the columns lowX..highX of the grid, in that order.
lowY(img, y, offset) == Max(0, y - offset)
highY(img, y, offset) == Min(img.height - 1, y + offset)
lowX(img, x, offset) == Max(0, x - offset)
highX(img, x, offset) == Min(img.width - 1, x + offset)

\* index after the collecting loops: the number of in-bounds samples
sampleCount(img, y, x, offset) ==
    (highY(img, y, offset) - lowY(img, y, offset) + 1)
        * (highX(img, x, offset) - lowX(img, x, offset) + 1)

\* the array Red (Green, Blue), indices 0..index-1, as collected from original_pixels
samples(original_pixels, img, y, x, offset, ch) ==
    LET ncols == highX(img, x, offset) - lowX(img, x, offset) + 1
    IN  [i \in 0..(sampleCount(img, y, x, offset) - 1) |->
            original_pixels[lowY(img, y, offset) + (i \div ncols)]
                           [lowX(img, x, offset) + (i % ncols)][ch]]

\* ascending_sort: the inner loop at i, from j on
RECURSIVE sortInner(_, _, _, _)
sortInner(colour, i, j, num_elements) ==
    IF j < num_elements
    THEN LET swapped == IF colour[j] < colour[i] THEN swap(colour, i, j) ELSE colour
         IN  IF swapped = swapped THEN sortInner(swapped, i, j + 1, num_elements)
             ELSE colour
    ELSE colour

\* ascending_sort: the outer loop, from i on
RECURSIVE sortOuter(_, _, _)
sortOuter(colour, i, num_elements) ==
    IF i < num_elements
    THEN LET placed == sortInner(colour, i, i + 1, num_elements)
         IN  IF placed = placed THEN sortOuter(placed, i + 1, num_elements) ELSE colour
    ELSE colour

ascending_sort(colour, num_elements) == sortOuter(colour, 0, num_elements)

\* the index of the sorted samples that applyNoiseReduction selects
medianIndex(index) == index \div 2

\* one channel of the pixel written at (y,x)
medianChannel(original_pixels, img, y, x, offset, ch) ==
    LET index == sampleCount(img, y, x, offset)
    IN  ascending_sort(samples(original_pixels, img, y, x, offset, ch), index)
            [medianIndex(index)]

\* some window gathers more samples than Red, Green and Blue hold: the writes
\* Red[index] = ... run past the end of the arrays (undefined behaviour)
overflowsAt(img, y, x, filter_strength) ==
    sampleCount(img, y, x, kernelOffset(filter_strength)) > bufferCapacity(filter_strength)

overflows(img, filter_strength) ==
    \E y \in Rows(img), x \in Cols(img) : overflowsAt(img, y, x, filter_strength)

\* the result when every window fits its buffers
applyNoiseReduction(img, filter_strength) ==
    LET offset == kernelOffset(filter_strength)
        original_pixels == copy_pixels(img.pixels)
    IN  [img EXCEPT !.pixels =
            [y \in Rows(img) |-> [x \in Cols(img) |->
                IF sampleCount(img, y, x, offset) > 0
                THEN Pixeldata(medianChannel(original_pixels, img, y, x, offset, "R"),
                               medianChannel(original_pixels, img, y, x, offset, "G"),
                               medianChannel(original_pixels, img, y, x, offset, "B"))
                ELSE img.pixels[y][x]]]]

(***************************************************************************)
(* Downsampler and glyph mapper (the ascii path).                          *)
(***************************************************************************)
\* new_height of changeImageSize: int(height * (new_width / (float)width) * 0.4f).
\* For sides up to 28 the float product truncates to the same integer as the
\* exact quotient 2 * height * new_width / (5 * width) (compared exhaustively
\* against the compiled expression).
newHeightNoAspect(img, new_width) == (img.height * new_width) \div img.width
\* the same product rounded to the nearest integer instead of truncated
newHeightRounded(img, new_width) ==
    (4 * img.height * new_width + 5 * img.width) \div (10 * img.width)
newHeight(img, new_width) == (2 * img.height * new_width) \div (5 * img.width)

\* what image.height / new_height can leave in kernal_size_y when new_height is 0
\* (integer division by zero is undefined: a trap, or a value the hardware leaves)
DivByZeroValues == {-1, 0, 1}

\* the first error branch of changeImageSize
tooLarge(img, new_width) ==
    new_width > img.width \/ newHeight(img, new_width) > img.height

\* one channel of pixel (y,x) of new_pixels: the mean over the box
boxChannel(img, y, x, kernal_size_x, kernal_size_y, ch) ==
    LET inBox == { << ky, kx >> \in (0..(kernal_size_y - 1)) \X (0..(kernal_size_x - 1)) :
                     y * kernal_size_y + ky < img.height /\ x * kernal_size_x + kx < img.width }
        RECURSIVE sum(_)
        sum(S) == IF S = {} THEN 0
                  ELSE LET k == CHOOSE k \in S : TRUE
                       IN  img.pixels[y * kernal_size_y + k[1]][x * kernal_size_x + k[2]][ch]
                             + sum(S \ {k})
        count == IF Cardinality(inBox) = 0 THEN 1 ELSE Cardinality(inBox)
    IN  toBYTE(sum(inBox) \div count)

\* changeImageSize from the kernel sizes on: the grid it installs
boxAverage(img, new_width, new_height, kernal_size_x, kernal_size_y) ==
    ImageDetails(new_width, new_height,
        [y \in 0..(new_height - 1) |-> [x \in 0..(new_width - 1) |->
            Pixeldata(boxChannel(img, y, x, kernal_size_x, kernal_size_y, "R"),
                      boxChannel(img, y, x, kernal_size_x, kernal_size_y, "G"),
                      boxChannel(img, y, x, kernal_size_x, kernal_size_y, "B"))]])

\* changeImageSize, given the value kernal_size_y took: the grid left in image
\* and whether an error branch returned
changeImageSize(img, new_width, kernal_size_y) ==
    IF tooLarge(img, new_width)
    THEN [image |-> img, failed |-> TRUE]
    ELSE IF img.width \div new_width <= 0 \/ kernal_size_y <= 0
    THEN [image |-> img, failed |-> TRUE]
    ELSE [image |-> boxAverage(img, new_width, newHeight(img, new_width),
                               img.width \div new_width, kernal_size_y),
          failed |-> FALSE]

\* the ramp of ASCII_filter, each character by its code (char is a byte):
\* 32 is the space, 64 the at-sign
ascii_chars ==
    <<  32,  96,  46,  45,  39,  58,  95,  44,  94,  61,  59,  62,
        60,  43,  33, 114,  99,  42,  47, 122,  63, 115,  76,  84,
       118,  41,  74,  55,  40, 124,  70, 105, 123,  67, 125, 102,
        73,  51,  49, 116, 108, 117,  91, 110, 101, 111,  90,  53,
        89, 120, 106, 121,  97,  93,  50,  69,  83, 119, 113, 107,
        80,  54, 104,  57, 100,  52,  86, 112,  79,  71,  98,  85,
        65,  75,  88,  72, 109,  56,  82,  68,  35,  36,  66, 103,
        48,  77,  78,  87,  81,  37,  38,  64 >>

\* strlen(ascii_chars)
num_chars == Len(ascii_chars)

\* min_val and max_val of ASCII_filter over the grayscaled grid
minVal(gray) ==
    LET vals == { gray.pixels[y][x].R : y \in Rows(gray), x \in Cols(gray) } \cup {BYTE_MAX}
    IN  CHOOSE v \in vals : \A u \in vals : v <= u
maxVal(gray) ==
    LET vals == { gray.pixels[y][x].R : y \in Rows(gray), x \in Cols(gray) } \cup {0}
    IN  CHOOSE v \in vals : \A u \in vals : v >= u

\* the stretched intensity of ASCII_filter
stretch(val, min_val, max_val) == (BYTE_MAX * (val - min_val)) \div (max_val - min_val + 1)

\* the grid ASCII_filter leaves in image: grayscaled, then stretched
stretchImage(img) ==
    LET gray == applyGrayscale(img)
        min_val == minVal(gray)
        max_val == maxVal(gray)
    IN  [gray EXCEPT !.pixels = [y \in Rows(gray) |-> [x \in Cols(gray) |->
            LET stretched == toBYTE(stretch(gray.pixels[y][x].R, min_val, max_val))
            IN  Pixeldata(stretched, stretched, stretched)]]]

rampIndexInverted(intensity) == ((BYTE_MAX - intensity) * (num_chars - 1)) \div BYTE_MAX

\* the ramp index of a stretched intensity (0-based, as in the source)
rampIndex(intensity) == (intensity * (num_chars - 1)) \div BYTE_MAX

\* the AsciiFilter that ASCII_filter returns
ASCII_filter(img) ==
    LET stretched == stretchImage(img)
    IN  [width |-> stretched.width, height |-> stretched.height,
         pixels |-> [y \in Rows(stretched) |-> [x \in Cols(stretched) |->
                        ascii_chars[rampIndex(stretched.pixels[y][x].R) + 1]]]]

\* the row of the glyph grid that saveAsciiImage writes as line k (k = 0 first)
savedRowInOrder(height, k) == k
savedRow(height, k) == height - 1 - k

\* the lines saveAsciiImage writes, first line first
saveAsciiImage(ascii) ==
    [k \in 1..ascii.height |->
        [x \in 1..ascii.width |-> ascii.pixels[savedRow(ascii.height, k - 1)][x - 1]]]

(***************************************************************************)
(* Paths.                                                                  *)
(***************************************************************************)
BMP_EXT == << ".", "b", "m", "p" >>

\* the paths entered at the prompt
Paths == { << "a", ".", "b", "m", "p" >>,
           << "a", ".", "p", "n", "g" >>,
           << "d", "/", "a", ".", "j", "p", "g" >>,
           << "d", "/", "b", ".", "b", "m", "p" >>,
           << "p", "h", "o", "t", "o" >> }

\* path.size() >= 4 && path.substr(path.size() - 4) == ".bmp"
endsWithBmp(path) ==
    Len(path) >= 4 /\ SubSeq(path, Len(path) - 3, Len(path)) = BMP_EXT

\* path.find_last_of(chars), 1-based; 0 stands for npos
find_last_of(path, chars) ==
    LET hits == { i \in 1..Len(path) : path[i] \in chars }
    IN  IF hits = {} THEN 0 ELSE CHOOSE i \in hits : \A j \in hits : j <= i

get_filename(filepath) ==
    LET last_slash == find_last_of(filepath, {"/", "\\"})
    IN  IF last_slash = 0 THEN filepath ELSE SubSeq(filepath, last_slash + 1, Len(filepath))

replace_ext_with_bmp(filename) ==
    LET last_dot == find_last_of(filename, {"."})
    IN  IF last_dot = 0 THEN filename \o BMP_EXT
        ELSE SubSeq(filename, 1, last_dot - 1) \o BMP_EXT

(***************************************************************************)
(* State.                                                                  *)
(***************************************************************************)
NoAscii == [made |-> FALSE, width |-> 0, height |-> 0, pixels |-> << >>]
NoText == [written |-> FALSE, lines |-> << >>]
NoOutput == [written |-> FALSE, image |-> NoImage]

\* the largest side of the grids the whole-program specification decodes
MainMax == 2
DecodedGrids == PatternGrids(1, MainMax)
\* the strengths the whole-program specification enters
StrengthInputs == {1, 2, 5, MAX_STRENGTH}

PcValues == { "prompt", "read", "convert", "invalid", "choose", "apply", "resized",
              "quantized", "write", "exit", "crashed" }

\* the state after construction: main before its first prompt
Init ==
    /\ pc = "prompt"
    /\ file_path = << >>
    /\ cur_path = << >>
    /\ attempts = 0
    /\ convCalls = 0
    /\ result = 0
    /\ image = NoImage
    /\ orig = NoImage
    /\ states = [selected_filter |-> 0, filter_strength |-> 0]
    /\ resize_failed = FALSE
    /\ ascii_image = NoAscii
    /\ new_size = 0
    /\ text_file = NoText
    /\ out_file = NoOutput

\* main at the call of selectFilter, a grid of grids decoded from a .bmp path,
\* a filter of filters selected and, where it takes one, a strength of strengths
InitSelected(grids, filters, strengths) ==
    /\ pc = "apply"
    /\ file_path = << "a", ".", "b", "m", "p" >>
    /\ cur_path = file_path
    /\ attempts = 1
    /\ convCalls = 0
    /\ result = 0
    /\ image \in grids
    /\ orig = image
    /\ states \in { [selected_filter |-> f, filter_strength |-> s] :
                      f \in filters, s \in strengths }
    /\ resize_failed = FALSE
    /\ ascii_image = NoAscii
    /\ new_size = 0
    /\ text_file = NoText
    /\ out_file = NoOutput

decodeVars == << file_path, cur_path, attempts, convCalls, result >>
asciiVars == << resize_failed, ascii_image, new_size, text_file >>

(***************************************************************************)
(* main: the prompt and the decode.                                        *)
(***************************************************************************)
\* std::getline(std::cin, file_path), and the call of check_and_read_file
EnterPath ==
    /\ pc \in {"prompt", "invalid"}
    /\ \E p \in Paths \cup {<< >>} :
         IF p = << >>
         THEN /\ pc' = "exit"
              /\ UNCHANGED decodeVars
         ELSE /\ pc' = "read"
              /\ file_path' = p
              /\ cur_path' = p
              /\ attempts' = 0
              /\ convCalls' = 0
              /\ result' = 0
    /\ UNCHANGED << image, orig, states, asciiVars, out_file >>

\* check_and_read_file on cur_path, up to its return or its call of convert_to_bmp;
\* what the file holds is the environment's choice
ReadFile ==
    /\ pc = "read"
    /\ attempts' = attempts + 1
    /\ \E found \in {"missing", "unsupported", "bmp24"} :
         IF found = "missing"
         THEN /\ result' = 1
              /\ pc' = "invalid"
              /\ UNCHANGED << image, orig, file_path >>
         ELSE IF found = "unsupported"
         THEN IF ~endsWithBmp(cur_path)
              THEN /\ pc' = "convert"
                   /\ UNCHANGED << result, image, orig, file_path >>
              ELSE /\ result' = 2
                   /\ pc' = "invalid"
                   /\ UNCHANGED << image, orig, file_path >>
         ELSE /\ \E g \in DecodedGrids : image' = g /\ orig' = g
              /\ result' = 0
              /\ pc' = "choose"
              /\ file_path' = IF ~endsWithBmp(file_path)
                              THEN replace_ext_with_bmp(get_filename(file_path))
                              ELSE file_path
    /\ UNCHANGED << cur_path, convCalls, states, asciiVars, out_file >>

\* convert_to_bmp(cur_path) and what check_and_read_file does with its result:
\* the retry on the derived name, or return 2
ConvertToBmp ==
    /\ pc = "convert"
    /\ IF endsWithBmp(cur_path)
       THEN /\ pc' = "read"
            /\ cur_path' = replace_ext_with_bmp(get_filename(cur_path))
            /\ UNCHANGED << convCalls, result >>
       ELSE /\ convCalls' = convCalls + 1
            /\ \E exit_code \in {0, 1} :
                 IF exit_code = 0
                 THEN /\ pc' = "read"
                      /\ cur_path' = replace_ext_with_bmp(get_filename(cur_path))
                      /\ UNCHANGED result
                 ELSE /\ pc' = "invalid"
                      /\ result' = 2
                      /\ UNCHANGED cur_path
    /\ UNCHANGED << file_path, attempts, image, orig, states, asciiVars, out_file >>

\* the two input loops of main: a filter 1..8 and, for a filter with parameters,
\* a strength 1..100
ChooseFilter ==
    /\ pc = "choose"
    /\ \E f \in 1..(NUM_FILTERS - 1) :
         \E s \in (IF has_parameters(f) THEN StrengthInputs ELSE {0}) :
            states' = [selected_filter |-> f, filter_strength |-> s]
    /\ pc' = "apply"
    /\ UNCHANGED << decodeVars, image, orig, asciiVars, out_file >>

(***************************************************************************)
(* selectFilter.                                                           *)
(***************************************************************************)
\* what a case of selectFilter other than the ascii one leaves alone
filterFrame == UNCHANGED << decodeVars, orig, states, asciiVars, out_file >>

DoGrayscale ==
    /\ pc = "apply" /\ states.selected_filter = 1
    /\ image' = applyGrayscale(image)
    /\ pc' = "write"
    /\ filterFrame

DoSepia ==
    /\ pc = "apply" /\ states.selected_filter = 2
    /\ image' = applySepia(image, states.filter_strength)
    /\ pc' = "write"
    /\ filterFrame

DoFlip ==
    /\ pc = "apply" /\ states.selected_filter = 3
    /\ image' = applyFlip(image)
    /\ pc' = "write"
    /\ filterFrame

DoGaussianBlur ==
    /\ pc = "apply" /\ states.selected_filter = 4
    /\ image' = blurPasses(image, 0, states.filter_strength)
    /\ pc' = "write"
    /\ filterFrame

DoSharpen ==
    /\ pc = "apply" /\ states.selected_filter = 5
    /\ image' = applySharpen(image, states.filter_strength)
    /\ pc' = "write"
    /\ filterFrame

DoEdgeDetection ==
    /\ pc = "apply" /\ states.selected_filter = 6
    /\ image' = applyEdgeDetection(image)
    /\ pc' = "write"
    /\ filterFrame

\* what a call of applyNoiseReduction can do: its result when every window fits
\* the buffers; otherwise (writes past Red, Green, Blue) the run is killed, or it
\* goes on with that result or with a pixel of an overflowing window corrupted
noiseOutcomes(img, filter_strength) ==
    IF overflows(img, filter_strength)
    THEN {[trap |-> TRUE, image |-> img],
          [trap |-> FALSE, image |-> applyNoiseReduction(img, filter_strength)]}
         \cup { [trap |-> FALSE,
                 image |-> [applyNoiseReduction(img, filter_strength)
                                EXCEPT !.pixels[yx[1]][yx[2]] = Palette[c]]] :
                  yx \in { p \in Rows(img) \X Cols(img) :
                             overflowsAt(img, p[1], p[2], filter_strength) },
                  c \in DOMAIN Palette }
    ELSE {[trap |-> FALSE, image |-> applyNoiseReduction(img, filter_strength)]}

DoNoiseReduction ==
    /\ pc = "apply" /\ states.selected_filter = 7
    /\ \E o \in noiseOutcomes(image, states.filter_strength) :
         /\ image' = o.image
         /\ pc' = IF o.trap THEN "crashed" ELSE "write"
    /\ filterFrame

\* make_output_file: the headers and the grid, when the file opens
WriteOutput ==
    /\ pc = "write"
    /\ \E opened \in BOOLEAN :
         out_file' = IF opened THEN [written |-> TRUE, image |-> image] ELSE NoOutput
    /\ pc' = "exit"
    /\ UNCHANGED << decodeVars, image, orig, states, asciiVars >>

(***************************************************************************)
(* make_ascii (selectFilter, case 8).                                      *)
(***************************************************************************)
\* what the division image.height / new_height leaves in kernal_size_y
kernelYOutcomes(img, new_width) ==
    IF tooLarge(img, new_width)
    THEN {[trap |-> FALSE, value |-> 0]}
    ELSE IF newHeight(img, new_width) = 0
    THEN {[trap |-> TRUE, value |-> 0]}
         \cup { [trap |-> FALSE, value |-> v] : v \in DivByZeroValues }
    ELSE {[trap |-> FALSE, value |-> img.height \div newHeight(img, new_width)]}

\* the sizes the input loop of make_ascii lets through
acceptedSizes(img) == { n \in 1..img.width : n <= img.height }

\* the input loop of make_ascii and changeImageSize(image, new_size)
AsciiResize ==
    /\ pc = "apply" /\ states.selected_filter = 8
    /\ \E n \in acceptedSizes(image) :
         /\ new_size' = n
         /\ \E k \in kernelYOutcomes(image, n) :
              IF k.trap
              THEN /\ pc' = "crashed"
                   /\ UNCHANGED << image, resize_failed >>
              ELSE /\ pc' = "resized"
                   /\ image' = changeImageSize(image, n, k.value).image
                   /\ resize_failed' = changeImageSize(image, n, k.value).failed
    /\ UNCHANGED << decodeVars, orig, states, ascii_image, text_file, out_file >>

\* ASCII_filter(image), called whatever changeImageSize did
AsciiQuantize ==
    /\ pc = "resized"
    /\ ascii_image' = [made |-> TRUE] @@ ASCII_filter(image)
    /\ image' = stretchImage(image)
    /\ pc' = "quantized"
    /\ UNCHANGED << decodeVars, orig, states, resize_failed, new_size, text_file, out_file >>

\* saveAsciiImage, when the file opens; main writes no bitmap for filter 8
AsciiSave ==
    /\ pc = "quantized"
    /\ \E opened \in BOOLEAN :
         text_file' = IF opened
                      THEN [written |-> TRUE, lines |-> saveAsciiImage(ascii_image)]
                      ELSE NoText
    /\ pc' = "exit"
    /\ UNCHANGED << decodeVars, image, orig, states, resize_failed, ascii_image,
                    new_size, out_file >>

(***************************************************************************)
(* Specifications.                                                         *)
(***************************************************************************)
Next ==
    \/ EnterPath
    \/ ReadFile
    \/ ConvertToBmp
    \/ ChooseFilter
    \/ DoGrayscale
    \/ DoSepia
    \/ DoFlip
    \/ DoGaussianBlur
    \/ DoSharpen
    \/ DoEdgeDetection
    \/ DoNoiseReduction
    \/ WriteOutput
    \/ AsciiResize
    \/ AsciiQuantize
    \/ AsciiSave

\* the whole program
Spec == Init /\ [][Next]_vars

\* the point filters on every small grid and on the patterned grids
PointGrids == AllGrids(MaxW, MaxH, GridColours) \cup PatternGrids(1, PatMax)
InitPoint == InitSelected(PointGrids, {1, 2, 3}, {1})
NextPoint == DoGrayscale \/ DoSepia \/ DoFlip \/ WriteOutput
SpecPoint == InitPoint /\ [][NextPoint]_vars

\* the median filter on the uniform grids and on the small patterned grids
NoisePatMax == 2
NoiseGrids ==
    { UniformGrid(w, h, Palette[c]) : w \in 1..NoiseMax, h \in 1..NoiseMax, c \in DOMAIN Palette }
        \cup PatternGrids(1, NoisePatMax)
InitNoise == InitSelected(NoiseGrids, {7}, Strengths)
NextNoise == DoNoiseReduction \/ WriteOutput
SpecNoise == InitNoise /\ [][NextNoise]_vars

\* edge detection on the patterned grids, the 5x5 checkerboards among them
InitEdge == InitSelected(PatternGrids(1, PatMax), {6}, {0})
NextEdge == DoEdgeDetection \/ WriteOutput
SpecEdge == InitEdge /\ [][NextEdge]_vars

\* the blur passes on the patterned grids of width BlurMax and height 3, the
\* least height with interior pixels (the blur treats rows and columns alike),
\* and on grids with a side below 3
BlurGrids ==
    { PatternGrid(BlurMax, 3, a, b, c) : a \in 0..3, b \in 0..3, c \in 0..1 }
        \cup { PatternGrid(wh[1], wh[2], 1, 2, 0) :
                 wh \in { d \in (1..BlurMax) \X (1..BlurMax) : d[1] < 3 \/ d[2] < 3 } }
InitBlur == InitSelected(BlurGrids, {4}, Strengths)
NextBlur == DoGaussianBlur \/ WriteOutput
SpecBlur == InitBlur /\ [][NextBlur]_vars

\* sharpen on the square patterned grids of side SharpMax, which have interior
\* pixels; one of each pair of transposed patterns (a <= b), the blur kernel
\* being symmetric and the other steps of sharpen acting pixel by pixel
SharpGrids ==
    { PatternGrid(SharpMax, SharpMax, ab[1], ab[2], c) :
        ab \in { p \in (0..3) \X (0..3) : p[1] <= p[2] }, c \in 0..3 }
InitSharpen == InitSelected(SharpGrids, {5}, Strengths)
NextSharpen == DoSharpen \/ WriteOutput
SpecSharpen == InitSharpen /\ [][NextSharpen]_vars

\* the ascii path on the patterned grids
InitAscii == InitSelected(PatternGrids(1, AsciiMax), {8}, {0})
NextAscii == AsciiResize \/ AsciiQuantize \/ AsciiSave
SpecAscii == InitAscii /\ [][NextAscii]_vars

TypeOK ==
    /\ pc \in PcValues
    /\ attempts \in 0..2
    /\ convCalls \in 0..1
    /\ result \in 0..3
    /\ states.selected_filter \in 0..(NUM_FILTERS - 1)
    /\ states.filter_strength \in 0..MAX_STRENGTH
    /\ resize_failed \in BOOLEAN
    /\ \A y \in Rows(image), x \in Cols(image) :
         \A ch \in {"R", "G", "B"} : image.pixels[y][x][ch] \in 0..BYTE_MAX

(***************************************************************************)
(* Properties.                                                             *)
(***************************************************************************)
\* selectFilter has returned from the case of filter f
Filtered(f) == states.selected_filter = f /\ pc \in {"write", "exit"}

\* C1: a flip moves pixel (y,x) of the decoded grid to (y, width-1-x), whatever
\* the width, and a second flip gives the decoded grid back pixel for pixel.
C1_FlipInvolutive ==
    Filtered(3) =>
        /\ image.width = orig.width /\ image.height = orig.height
        /\ \A y \in Rows(orig), x \in Cols(orig) :
             image.pixels[y][orig.width - 1 - x] = orig.pixels[y][x]
        /\ applyFlip(image) = orig

\* a flipped grid of odd width whose end columns differ
C1_Witness ==
    /\ Filtered(3)
    /\ orig.width = 3
    /\ orig.pixels[0][0] # orig.pixels[0][2]
    /\ image # orig

\* C2: grayscale sets the three channels of every pixel to the truncated mean
\* (R+G+B)/3 of the decoded pixel, and applying it again changes nothing.
C2_GrayscaleIdempotent ==
    Filtered(1) =>
        /\ \A y \in Rows(orig), x \in Cols(orig) :
             LET p == orig.pixels[y][x]
                 q == image.pixels[y][x]
             IN  /\ 3 * q.R <= p.R + p.G + p.B
                 /\ p.R + p.G + p.B < 3 * q.R + 3
                 /\ q.G = q.R /\ q.B = q.R
        /\ applyGrayscale(image) = image

\* a grayscaled grid with a pixel that was not gray and whose mean is truncated
C2_Witness ==
    /\ Filtered(1)
    /\ \E y \in Rows(orig), x \in Cols(orig) :
         /\ orig.pixels[y][x].R # orig.pixels[y][x].B
         /\ (orig.pixels[y][x].R + orig.pixels[y][x].G + orig.pixels[y][x].B) % 3 # 0

\* C3: on a grid whose pixels all have one colour, applyNoiseReduction returns
\* for every strength 1..100 and leaves every pixel, edge and corner pixels
\* included, with its colour.
C3_UniformUnchanged ==
    (states.selected_filter = 7 /\ pc # "apply" /\ IsUniform(orig)) =>
        (pc # "crashed" /\ image = orig)

\* what holds of C3: the uniform grid is unchanged whenever no window gathers
\* more samples than the buffers hold
C3_UnchangedWithinBuffers ==
    (states.selected_filter = 7 /\ pc # "apply" /\ IsUniform(orig)
        /\ ~overflows(orig, states.filter_strength)) =>
        (pc # "crashed" /\ image = orig)

\* a uniform grid filtered without overflow, a corner window clipped
C3_WithinBuffersWitness ==
    /\ Filtered(7) /\ IsUniform(orig)
    /\ orig.width = 5 /\ orig.height = 5 /\ states.filter_strength = 2
    /\ ~overflows(orig, states.filter_strength)
    /\ sampleCount(orig, 0, 0, kernelOffset(2)) < bufferCapacity(2)

\* C4: once changeImageSize has returned through an error branch, the grid
\* stays as decoded and make_ascii makes no glyph grid and writes no text file.
C4_FailedResizeAborts ==
    resize_failed =>
        (image = orig /\ ~ascii_image.made /\ ~text_file.written)

\* what holds of C4: at the return of a failed changeImageSize the grid is the
\* decoded one, pixels and dimensions
C4_GridUntouchedAtReturn ==
    (pc = "resized" /\ resize_failed) => image = orig

\* the sum of channel ch of column x over the rows lo..hi
RECURSIVE rowsSum(_, _, _, _, _)
rowsSum(px, x, ch, lo, hi) ==
    IF lo > hi THEN 0 ELSE px[lo][x][ch] + rowsSum(px, x, ch, lo + 1, hi)

\* C5 as stated: changeImageSize with new_width equal to the width does not
\* fail and leaves width, height and pixels as they were.
C5_SameWidthNoOp ==
    (pc = "resized" /\ new_size = orig.width) =>
        (~resize_failed /\ image = orig)

\* C5, amended: with new_width equal to the width, changeImageSize never takes
\* the "larger than original" branch; when it completes the grid keeps its
\* width, its height becomes 0.4 * height truncated (less than the height), and
\* pixel (y,x) is the truncated mean of the kernal_size_y = height / new_height
\* source pixels of column x from row y * kernal_size_y on. It returns through
\* the kernel-size branch only when the new height is 0, the grid untouched.
C5_SameWidthShrinksHeight ==
    (pc = "resized" /\ new_size = orig.width) =>
        LET new_height == (2 * orig.height) \div 5
        IN  /\ ~(new_size > orig.width \/ new_height > orig.height)
            /\ IF resize_failed
               THEN new_height = 0 /\ image = orig
               ELSE /\ image.width = orig.width
                    /\ image.height = new_height
                    /\ image.height < orig.height
                    /\ new_height > 0 =>
                         LET k == orig.height \div new_height
                         IN  \A y \in Rows(image), x \in Cols(image) :
                               \A ch \in {"R", "G", "B"} :
                                 image.pixels[y][x][ch]
                                   = rowsSum(orig.pixels, x, ch, y * k, y * k + k - 1) \div k

\* a grid that is not uniform, resized to its own width, two rows left
C5_Witness ==
    /\ pc = "resized" /\ new_size = orig.width /\ ~resize_failed
    /\ image.height >= 2
    /\ ~IsUniform(orig)
    /\ image # orig

\* a 5x5 grid of black and white pixels alternating along rows and columns
IsCheckerboard(img) ==
    /\ img.width = 5 /\ img.height = 5
    /\ img.pixels[0][0] \in {Black, White}
    /\ \A y \in Rows(img), x \in Cols(img) :
         img.pixels[y][x] = IF (x + y) % 2 = 0 THEN img.pixels[0][0]
                            ELSE IF img.pixels[0][0] = Black THEN White ELSE Black

\* C6 as stated: after edge detection of a 5x5 black and white checkerboard
\* some interior pixel (rows and columns 1..3) has a channel greater than 0.
C6_CheckerboardInteriorNonzero ==
    (Filtered(6) /\ IsCheckerboard(orig)) =>
        \E y \in 1..3, x \in 1..3 :
            image.pixels[y][x].R > 0 \/ image.pixels[y][x].G > 0
                \/ image.pixels[y][x].B > 0

\* C6, amended: after edge detection of a 5x5 black and white checkerboard
\* every interior pixel is (0,0,0), both gradients being sums that cancel, and
\* the border ring keeps the pixels of the decoded grid.
C6_CheckerboardInteriorZero ==
    (Filtered(6) /\ IsCheckerboard(orig)) =>
        /\ \A y \in 1..3, x \in 1..3 :
             /\ conv3(applyGrayscale(orig).pixels, y, x, "R", Gx) = 0
             /\ conv3(applyGrayscale(orig).pixels, y, x, "R", Gy) = 0
             /\ image.pixels[y][x] = Black
        /\ \A y \in Rows(orig), x \in Cols(orig) :
             ~IsInterior(orig, y, x) => image.pixels[y][x] = orig.pixels[y][x]

\* an edge-detected checkerboard whose white interior pixels have turned black
C6_Witness ==
    /\ Filtered(6) /\ IsCheckerboard(orig)
    /\ orig.pixels[1][2] = White /\ image.pixels[1][2] = Black
    /\ orig.pixels[0][1] = White /\ image.pixels[0][1] = White

\* the glyph grid was made from a grid of one intensity (min_val = max_val)
QuantizedUniform == ascii_image.made /\ IsUniform(applyGrayscale(orig))

\* C7 as stated: on a grid of one gray level every glyph is the character in
\* the middle of the 92-character ramp.
C7_MidRampGlyph ==
    QuantizedUniform =>
        \A y \in 0..(ascii_image.height - 1), x \in 0..(ascii_image.width - 1) :
            ascii_image.pixels[y][x] = ascii_chars[((num_chars - 1) \div 2) + 1]

\* the code of the space character
SPACE == 32

\* C7, amended: the ramp has 92 characters and, on a grid of one gray level,
\* every glyph is its first character (index 0, the space): min_val = max_val
\* stretches every intensity to 0.
C7_FirstRampGlyph ==
    /\ num_chars = 92
    /\ QuantizedUniform =>
        \A y \in 0..(ascii_image.height - 1), x \in 0..(ascii_image.width - 1) :
            ascii_image.pixels[y][x] = ascii_chars[1] /\ ascii_image.pixels[y][x] = SPACE

\* the 8x8 gray grid at requested width 4: a glyph grid of 4 columns, 1 row
C7_Witness ==
    /\ QuantizedUniform
    /\ orig = UniformGrid(8, 8, Gray)
    /\ new_size = 4
    /\ ascii_image.width = 4 /\ ascii_image.height = 1

\* C8: for a grid sharpened with a strength s1, the count of channel values
\* equal to 0 or 255 is no greater than the count after sharpening the same
\* decoded grid with any greater strength s2 up to 100.
C8_SaturationMonotone ==
    Filtered(5) =>
        \A s2 \in Strengths :
            s2 > states.filter_strength =>
                saturatedCount(applySharpen(orig, s2)) >= saturatedCount(image)

\* a sharpened grid with a channel short of 255 that a greater strength saturates
C8_Witness ==
    /\ Filtered(5)
    /\ states.filter_strength = 1
    /\ image = applySharpen(orig, 1)
    /\ \E s2 \in 2..MAX_STRENGTH :
         saturatedCount(applySharpen(orig, s2)) > saturatedCount(image)

\* C9 as stated: one decode calls the converter at most once and reads at most
\* twice, a decode that ends with code 2 for an unsupported file has called
\* the converter exactly once, and a failed decode leaves no grid.
C9_UnsupportedConvertsOnce ==
    /\ convCalls <= 1
    /\ attempts <= 2
    /\ (pc = "invalid" /\ result = 2) => convCalls = 1
    /\ pc = "invalid" => (result \in {1, 2} /\ image = NoImage)

\* what holds of C9: the converter is called at most once and only for a path
\* not ending in .bmp, a second read happens only after a conversion or for
\* such a path, and a failed decode ends with code 1 or 2 and no grid
C9_ConvertsAtMostOnce ==
    /\ convCalls <= 1
    /\ attempts <= 2
    /\ convCalls = 1 => ~endsWithBmp(file_path) \/ pc \notin {"read", "convert", "invalid"}
    /\ pc = "invalid" => (result \in {1, 2} /\ image = NoImage)

\* row y of the glyph grid as a line of text
glyphRow(y) == [x \in 1..ascii_image.width |-> ascii_image.pixels[y][x - 1]]

\* C10 as stated: line k of the text output is row k of the glyph grid.
C10_RowsInMemoryOrder ==
    text_file.written =>
        \A k \in 0..(ascii_image.height - 1) : text_file.lines[k + 1] = glyphRow(k)

\* C10, amended: the text has one line per row of the glyph grid, and line k
\* (k = 0 the first line written) is row height-1-k: the rows are written in
\* the reverse of their order in memory.
C10_RowsReversed ==
    text_file.written =>
        /\ Len(text_file.lines) = ascii_image.height
        /\ \A k \in 0..(ascii_image.height - 1) :
             text_file.lines[k + 1] = glyphRow(ascii_image.height - 1 - k)

\* a written text of a glyph grid whose first and last rows differ
C10_Witness ==
    /\ text_file.written
    /\ ascii_image.height >= 2
    /\ glyphRow(0) # glyphRow(ascii_image.height - 1)

\* applyNoiseReduction has been called: it has returned or the run was killed
NoiseApplied == states.selected_filter = 7 /\ pc # "apply"

\* C11 as stated: for every strength 1..100 the kernel size 3 + adjusted
\* strength that applyNoiseReduction works with is odd.
C11_KernelSizeOdd ==
    NoiseApplied => kernel_size(states.filter_strength) % 2 = 1

\* what holds of C11: the kernel size is even exactly for the strengths that
\* leave remainder 1 on division by 4, and then it is 3 + (strength + 1) / 2
C11_KernelSizeParity ==
    NoiseApplied =>
        LET s == states.filter_strength
        IN  /\ (kernel_size(s) % 2 = 0) <=> (s % 4 = 1)
            /\ s % 2 = 0 => kernel_size(s) = 3 + s
            /\ s % 2 = 1 => kernel_size(s) = 3 + (s + 1) \div 2

\* C12 as stated: no window of the call gathers more in-bounds samples than
\* the kernel_size * kernel_size bytes of Red, Green and Blue.
C12_SamplesFitBuffers ==
    NoiseApplied =>
        \A y \in Rows(orig), x \in Cols(orig) :
            sampleCount(orig, y, x, kernelOffset(states.filter_strength))
                <= bufferCapacity(states.filter_strength)

\* what holds of C12: a window overflows the buffers only with an even kernel
\* size k, whose window of side 2 * (k / 2) + 1 = k + 1 holds up to (k + 1)^2
\* samples; with an odd kernel size every window fits
C12_FitWithOddKernel ==
    (NoiseApplied /\ kernel_size(states.filter_strength) % 2 = 1) =>
        ~overflows(orig, states.filter_strength)

\* the number of samples of channel ch, among the in-bounds pixels of the
\* window of (y,x) in the decoded grid, that satisfy test
windowCount(y, x, ch, test(_)) ==
    LET offset == kernelOffset(states.filter_strength)
    IN  Cardinality({ p \in Rows(orig) \X Cols(orig) :
            /\ p[1] >= y - offset /\ p[1] <= y + offset
            /\ p[2] >= x - offset /\ p[2] <= x + offset
            /\ test(orig.pixels[p[1]][p[2]][ch]) })

\* v is the element at index count / 2 of the ascending list of channel ch over
\* the window of (y,x): at most count / 2 samples are below v, and more than
\* count / 2 are below or equal to v
IsWindowMedian(v, y, x, ch) ==
    LET below(u) == u < v
        notAbove(u) == u <= v
        any(u) == TRUE
        half == windowCount(y, x, ch, any) \div 2
    IN  /\ windowCount(y, x, ch, below) <= half
        /\ windowCount(y, x, ch, notAbove) > half

\* C13 as stated: after applyNoiseReduction every channel of every pixel is the
\* element at index count / 2 of the sorted samples of its window, the samples
\* taken from the grid as it was before the call.
C13_MedianOfSnapshot ==
    NoiseApplied =>
        /\ pc # "crashed"
        /\ \A y \in Rows(orig), x \in Cols(orig) : \A ch \in {"R", "G", "B"} :
             IsWindowMedian(image.pixels[y][x][ch], y, x, ch)

\* what holds of C13: the same, for the calls in which no window overflows
\* the buffers
C13_MedianWithinBuffers ==
    (NoiseApplied /\ ~overflows(orig, states.filter_strength)) =>
        /\ pc # "crashed"
        /\ \A y \in Rows(orig), x \in Cols(orig) : \A ch \in {"R", "G", "B"} :
             IsWindowMedian(image.pixels[y][x][ch], y, x, ch)

\* C14: after the filter_strength passes of the blur the grid has its decoded
\* dimensions, every pixel of the outermost ring has its decoded value, a grid
\* with a side below 3 is unchanged, and every interior pixel is the weighted
\* sum, in sixteenths and truncated, of its 3x3 neighbourhood in the grid that
\* the last pass received (the result of the passes before it).
C14_BlurKeepsBorder ==
    Filtered(4) =>
        LET received == blurPasses(orig, 0, states.filter_strength - 1)
        IN  /\ image.width = orig.width /\ image.height = orig.height
            /\ (orig.width < 3 \/ orig.height < 3) => image = orig
            /\ \A y \in Rows(orig), x \in Cols(orig) :
                 IF y = 0 \/ y = orig.height - 1 \/ x = 0 \/ x = orig.width - 1
                 THEN image.pixels[y][x] = orig.pixels[y][x]
                 ELSE \A ch \in {"R", "G", "B"} :
                        image.pixels[y][x][ch] =
                            conv3(received.pixels, y, x, ch, GAUSSIAN_KERNEL)
                                \div GAUSSIAN_DIVISOR

\* a grid with two interior pixels after several passes, both changed, the
\* last pass having changed one of them again
C14_Witness ==
    /\ Filtered(4)
    /\ states.filter_strength >= 2
    /\ orig.width >= 4 /\ orig.height >= 3
    /\ image.pixels[1][1] # orig.pixels[1][1]
    /\ image.pixels[1][2] # orig.pixels[1][2]
    /\ image # blurPasses(orig, 0, states.filter_strength - 1)

\* channel ch of pixel (y,x) of the decoded grid after one blur pass
blurredOnce(y, x, ch) ==
    IF IsInterior(orig, y, x)
    THEN conv3(orig.pixels, y, x, ch, GAUSSIAN_KERNEL) \div GAUSSIAN_DIVISOR
    ELSE orig.pixels[y][x][ch]

\* C15: sharpen with strength s sets every channel to
\* clamp(g + clamp(((g - b) mod 256) * s, 0, 255), 0, 255), g the decoded value
\* and b the value after one blur pass of the decoded grid.
C15_SharpenFormula ==
    Filtered(5) =>
        /\ image.width = orig.width /\ image.height = orig.height
        /\ \A y \in Rows(orig), x \in Cols(orig) : \A ch \in {"R", "G", "B"} :
             LET g == orig.pixels[y][x][ch]
                 b == blurredOnce(y, x, ch)
                 mask == clamp(((g - b) % 256) * states.filter_strength, 0, BYTE_MAX)
             IN  image.pixels[y][x][ch] = clamp(g + mask, 0, BYTE_MAX)

\* a sharpened grid with a channel darker than its blur, whose difference has
\* wrapped and raised the channel, and a channel whose product stayed below 255
C15_Witness ==
    /\ Filtered(5)
    /\ \E y \in Rows(orig), x \in Cols(orig) : \E ch \in {"R", "G", "B"} :
         /\ orig.pixels[y][x][ch] < blurredOnce(y, x, ch)
         /\ image.pixels[y][x][ch] > orig.pixels[y][x][ch]
    /\ \E y \in Rows(orig), x \in Cols(orig) : \E ch \in {"R", "G", "B"} :
         /\ orig.pixels[y][x][ch] > blurredOnce(y, x, ch)
         /\ image.pixels[y][x][ch] < BYTE_MAX

\* changeImageSize has installed a new grid
Resized == pc = "resized" /\ ~resize_failed

\* C16 as stated: a resize that succeeds leaves a grid of new_width columns
\* whose number of rows is height * (new_width / width) * 0.4 rounded to the
\* nearest integer.
C16_HeightRounded ==
    Resized =>
        /\ image.width = new_size
        /\ image.height = newHeightRounded(orig, new_size)

\* C16, amended: a resize that succeeds leaves a grid of new_width columns whose
\* number of rows is height * (new_width / width) * 0.4 truncated, the largest
\* integer H with 5 * width * H <= 2 * height * new_width (0 included), and the
\* pixels are H rows of new_width columns each.
C16_HeightTruncated ==
    Resized =>
        /\ image.width = new_size
        /\ 5 * orig.width * image.height <= 2 * orig.height * new_size
        /\ 2 * orig.height * new_size < 5 * orig.width * (image.height + 1)
        /\ DOMAIN image.pixels = 0..(image.height - 1)
        /\ \A y \in DOMAIN image.pixels : DOMAIN image.pixels[y] = 0..(new_size - 1)

\* a resized grid with fewer rows than the nearest integer would give
C16_Witness ==
    /\ Resized
    /\ image.height >= 1
    /\ new_size < orig.width
    /\ image.height < newHeightRounded(orig, new_size)

\* C17 as stated: for an accepted width changeImageSize divides by no zero
\* new height, and it returns either through an error branch with the grid
\* untouched or with a grid of positive width and height.
C17_NoZeroHeight ==
    (states.selected_filter = 8 /\ pc \in {"resized", "crashed"}) =>
        /\ pc # "crashed"
        /\ tooLarge(orig, new_size) \/ newHeight(orig, new_size) # 0
        /\ IF resize_failed THEN image = orig
           ELSE image.width > 0 /\ image.height > 0

\* what holds of C17: when the new height is positive, that is when
\* 2 * height * new_width >= 5 * width, the call completes with a grid of
\* positive width and height; the new height is 0 for every other accepted
\* width, and then the division is by zero
C17_NonEmptyWhenHeightPositive ==
    (states.selected_filter = 8 /\ pc \in {"resized", "crashed"}) =>
        /\ (newHeight(orig, new_size) > 0) <=> (2 * orig.height * new_size >= 5 * orig.width)
        /\ newHeight(orig, new_size) > 0 =>
              (Resized /\ image.width > 0 /\ image.height > 0)
        /\ ~tooLarge(orig, new_size)

====
